---------------------------- MODULE Spec2Model ----------------------------
(***************************************************************************)
(* The forecast handler getYilanWeekly of CwaWeather-backend, in the three *)
(* revisions the repository holds:                                         *)
(*   rev "A"  src/server.js:23-152      F-D0047-003, place filtered here   *)
(*   rev "B"  src/server.js:201-315     F-D0047-003, place filtered        *)
(*                                      upstream, first entry taken        *)
(*   rev "C"  src/unnamed/part_000:23-128  F-C0032-003, county forecast    *)
(* One request is served: the credential check, the one awaited upstream   *)
(* call, then locating the place record, normalising it and responding.    *)
(*                                                                         *)
(* JavaScript values are tagged records [t, v]:                            *)
(*   undefined, null, a string, a list (array), an object (a record of     *)
(*   properties; a property holding Undef reads like an absent one).       *)
(* Place names are written in ASCII: "YilanCity" is the default town       *)
(* (server.js:33), "YilanCounty" the county of part_000:34.                *)
(***************************************************************************)
EXTENDS Integers, Sequences, FiniteSets, TLC

VARIABLES rev, apiKey, town, pc, calls, response, sent, normalized

vars == <<rev, apiKey, town, pc, calls, response, sent, normalized>>

----------------------------------------------------------------------------
(* Bounds of the input domain *)

MaxLen == 2

MaxPlaces == 2

MaxSeries == 2

----------------------------------------------------------------------------
(* JavaScript values and the operators the handlers use on them *)

Undef == [t |-> "undef", v |-> 0]

Null == [t |-> "null", v |-> 0]

Throw == [t |-> "throw", v |-> 0]

Str(s) == [t |-> "str", v |-> s]

List(q) == [t |-> "list", v |-> q]

Obj(r) == [t |-> "obj", v |-> r]

Nullish(x) == x.t \in {"undef", "null"}

Truthy(x) == ~Nullish(x) /\ ~(x.t = "str" /\ x.v = "")

\* a || b
Or(a, b) == IF Truthy(a) THEN a ELSE b

\* a ?? b
Coalesce(a, b) == IF Nullish(a) THEN b ELSE a

\* o.k on a value that is not null or undefined
Get(o, k) ==
  IF o.t = "obj" /\ k \in DOMAIN o.v THEN o.v[k] ELSE Undef

\* o?.k
OptGet(o, k) == IF Nullish(o) THEN Undef ELSE Get(o, k)

\* o[i] on a value that is not null or undefined (i counts from 0)
Idx(o, i) ==
  CASE o.t = "list" -> IF i + 1 \in DOMAIN o.v THEN o.v[i + 1] ELSE Undef
    [] o.t = "str" -> IF i < Len(o.v) THEN Str(SubSeq(o.v, i + 1, i + 1)) ELSE Undef
    [] OTHER -> Undef

\* o?.[i]
OptIdx(o, i) == IF Nullish(o) THEN Undef ELSE Idx(o, i)

\* t ? t.length : 0, for the lists and strings the payloads hold
LengthOr0(t) == IF Truthy(t) /\ t.t \in {"list", "str"} THEN Len(t.v) ELSE 0

\* x.length === 0
LengthIs0(x) == x.t \in {"list", "str"} /\ Len(x.v) = 0

SeqsUpTo(S, n) == UNION {[1..k -> S] : k \in 0..n}

Max(S) == CHOOSE x \in S : \A y \in S : y <= x


----------------------------------------------------------------------------
(* The upstream service: what the awaited axios.get delivers *)

\* parameter: absent, {parameterName, parameterValue}, the same inside a
\* list, or a bare string
ParamVals ==
  {Undef, Str("Sunny"), List(<<Obj([parameterName |-> Str("Sunny"), parameterValue |-> Str("1")])>>)}
  \cup {Obj([parameterName |-> n, parameterValue |-> c]) :
          n \in {Undef, Str(""), Str("Sunny")}, c \in {Undef, Str(""), Str("1")}}

\* one element of an elementValue list
EVItems ==
  {Obj([value |-> a, measures |-> m, description |-> d]) :
     a \in {Undef, Str(""), Str("20")}, m \in {Undef, Str("C")},
     d \in {Undef, Str(""), Str("Warm")}}

\* elementValue: absent, a list (empty, holding null, holding one element),
\* or the element itself where the list should be
EVVals ==
  {Undef, List(<<>>), List(<<Null>>),
   Obj([value |-> Str("20"), measures |-> Str("C"), description |-> Str("Warm")])}
  \cup {List(<<e>>) : e \in EVItems}

TimePairs == {<<Undef, Undef>>, <<Str("T0"), Str("T1")>>}

MkEntry(tp, p, ev) ==
  Obj([startTime |-> tp[1], endTime |-> tp[2], parameter |-> p, elementValue |-> ev])

SunnyParam == Obj([parameterName |-> Str("Sunny"), parameterValue |-> Str("1")])

WarmValue == List(<<Obj([value |-> Str("20"), measures |-> Str("C"), description |-> Str("Warm")])>>)

\* the shapes of one time entry: every parameter with elementValue absent or
\* well formed, every elementValue with parameter absent or well formed; and
\* a missing (null) entry
AllEntries ==
  {MkEntry(tp, p, ev) : tp \in TimePairs, p \in ParamVals, ev \in {Undef, WarmValue}}
  \cup {MkEntry(tp, p, ev) : tp \in TimePairs, p \in {Undef, SunnyParam}, ev \in EVVals}
  \cup {Null}

TimeStamps == <<"T0", "T1", "T2", "T3", "T4", "T5">>

\* the well-formed entry of period i (from 0): it runs from Ti to Ti+1
EntryOfPeriod(i) ==
  MkEntry(<<Str(TimeStamps[i + 1]), Str(TimeStamps[i + 2])>>, SunnyParam, WarmValue)

MkElement(name, time) == Obj([elementName |-> Str(name), time |-> time])

MkPlace(name, we) == Obj([locationName |-> Str(name), weatherElement |-> we])

\* a time list: absent, or the entries of the first n periods, n up to
\* MaxLen, whole or with the first entry missing (null)
FewSeries ==
  {Undef}
  \cup {List([i \in 1..n |-> EntryOfPeriod(i - 1)]) : n \in 0..MaxLen}
  \cup {List([i \in 1..n |-> IF i = 1 THEN Null ELSE EntryOfPeriod(i - 1)]) : n \in 1..MaxLen}

\* weatherElement lists: one series of one entry of any shape ...
ShapeElements ==
  {List(<<MkElement(n, List(<<e>>))>>) : n \in {"Wx", "WS", "PoP"}, e \in AllEntries}

\* ... or up to MaxSeries series (the same name twice included) of unequal
\* lengths, or no list at all
LengthElements ==
  {Undef} \cup
  {List(q) : q \in SeqsUpTo({MkElement(n, s) : n \in {"Wx", "WS"}, s \in FewSeries}, MaxSeries)}

OneWx == List(<<MkElement("Wx", List(<<EntryOfPeriod(0)>>))>>)

PlaceNames == {"YilanCity", "Luodong", "YilanCounty"}

\* up to MaxPlaces named places with a one-entry Wx series each
NamedPlaceLists ==
  {List(q) : q \in SeqsUpTo({MkPlace(n, OneWx) : n \in PlaceNames}, MaxPlaces)}

\* place lists: one place with any of the weatherElement lists above, or
\* named places
PlaceLists ==
  {List(<<MkPlace("YilanCity", we)>>) : we \in ShapeElements \cup LengthElements}
  \cup NamedPlaceLists

FlatRecords(l) == Obj([location |-> l, locations |-> Undef])

WrappedRecords(l) == Obj([location |-> Undef, locations |-> List(<<Obj([location |-> l])>>)])

\* response.data: no body, no records, a flat list, a wrapped list, an empty
\* wrapper list, or both containers at once
Bodies ==
  {Null, Obj([records |-> Undef]),
   Obj([records |-> Obj([location |-> Undef, locations |-> List(<<>>)])])}
  \cup {Obj([records |-> FlatRecords(l)]) : l \in PlaceLists \cup {Undef}}
  \cup {Obj([records |-> WrappedRecords(l)]) : l \in PlaceLists \cup {Undef}}
  \cup {Obj([records |-> Obj([location |-> l, locations |-> List(<<Obj([location |-> m])>>)])]) :
          l, m \in NamedPlaceLists}

HttpStatuses == {401, 404, 503}

\* what the call ends in: a 2xx body, an error carrying the upstream
\* response, or an error without one (network error, timeout)
Outcomes ==
  {[kind |-> "ok", status |-> 200, data |-> d] : d \in Bodies}
  \cup {[kind |-> "http", status |-> s, data |-> Undef] : s \in HttpStatuses}
  \cup {[kind |-> "network", status |-> 0, data |-> Undef]}

\* req.params.town: the route without :town, or a town
Towns == {Undef, Str("Luodong")}

\* process.env.CWA_API_KEY
Keys == {Undef, Str(""), Str("KEY")}

Revs == {"A", "B", "C"}

----------------------------------------------------------------------------
(* The normaliser: elements, timeLen and one forecast period per index *)

\* elements[el.elementName] = el.time for each el in turn: a later element
\* of the same name overwrites the earlier one
BuildElements(we) ==
  LET names == {Get(we.v[j], "elementName").v : j \in DOMAIN we.v}
  IN  [n \in names |->
         Get(we.v[Max({j \in DOMAIN we.v : Get(we.v[j], "elementName").v = n})], "time")]

\* elements[elName]
Elem(elements, elName) ==
  IF elName \in DOMAIN elements THEN elements[elName] ELSE Undef

\* Math.max(...Object.values(elements).map(t => t ? t.length : 0)); of no
\* values it is -Infinity, written -1: it is only compared with i >= 0
TimeLenMax(elements) ==
  IF DOMAIN elements = {} THEN -1
  ELSE Max({LengthOr0(elements[n]) : n \in DOMAIN elements})

\* elements['Wx'] ? elements['Wx'].length : 0
TimeLenWx(elements) == LengthOr0(Elem(elements, "Wx"))

Period(st, en, wx, pop, minT, maxT, ci, ws) ==
  [startTime |-> st, endTime |-> en, wx |-> wx, pop |-> pop,
   minT |-> minT, maxT |-> maxT, ci |-> ci, ws |-> ws]

PeriodFields(f) == {f.startTime, f.endTime, f.wx, f.pop, f.minT, f.maxT, f.ci, f.ws}

\* ---- rev A

getValueA(elements, i, elName, paramIndex) ==
  LET timeArray == Elem(elements, elName)
  IN  IF ~Truthy(timeArray) \/ ~Truthy(Idx(timeArray, i))
         \/ ~Truthy(Get(Idx(timeArray, i), "elementValue"))
      THEN Null
      ELSE LET elementValue == Idx(Get(Idx(timeArray, i), "elementValue"), paramIndex)
           IN  Or(Or(OptGet(elementValue, "value"), OptGet(elementValue, "measures")), Null)

getDescriptionA(elements, i, elName, paramIndex) ==
  LET timeArray == Elem(elements, elName)
  IN  IF ~Truthy(timeArray) \/ ~Truthy(Idx(timeArray, i))
         \/ ~Truthy(Get(Idx(timeArray, i), "elementValue"))
      THEN Null
      ELSE LET elementValue == Idx(Get(Idx(timeArray, i), "elementValue"), paramIndex)
           IN  Or(OptGet(elementValue, "description"), Null)

\* timeMeta falling back to the WS entry where Wx has none
timeMetaA_FallBack(elements, i) ==
  IF Truthy(Elem(elements, "Wx")) /\ Truthy(Idx(Elem(elements, "Wx"), i))
  THEN Idx(Elem(elements, "Wx"), i)
  ELSE IF Truthy(Elem(elements, "WS")) THEN Idx(Elem(elements, "WS"), i) ELSE Null

\* elements["Wx"] ? elements["Wx"][i] : null
timeMetaA(elements, i) ==
  IF Truthy(Elem(elements, "Wx")) THEN Idx(Elem(elements, "Wx"), i) ELSE Null

PeriodA(elements, i) ==
  LET timeMeta == timeMetaA(elements, i)
  IN  Period(Coalesce(OptGet(timeMeta, "startTime"), Null),
             Coalesce(OptGet(timeMeta, "endTime"), Null),
             getDescriptionA(elements, i, "Wx", 0),
             getValueA(elements, i, "PoP12h", 0),
             getValueA(elements, i, "MinT", 0),
             getValueA(elements, i, "MaxT", 0),
             getDescriptionA(elements, i, "CI", 0),
             getValueA(elements, i, "WS", 0))

\* ---- rev B

getParamB(elements, i, elName) ==
  LET arr == Or(Elem(elements, elName), List(<<>>))
  IN  IF ~Truthy(Idx(arr, i)) THEN Null
      ELSE Or(Get(Idx(arr, i), "parameter"), Null)

\* wx ? wx.parameterName || wx.parameterValue : ""
fieldB(p) ==
  IF Truthy(p) THEN Or(Get(p, "parameterName"), Get(p, "parameterValue")) ELSE Str("")

\* (elements["Wx"] && elements["Wx"][i]) || { startTime: null, endTime: null }
timeMetaB(elements, i) ==
  LET wx == Elem(elements, "Wx")
  IN  Or(IF Truthy(wx) THEN Idx(wx, i) ELSE wx,
         Obj([startTime |-> Null, endTime |-> Null]))

PeriodB(elements, i) ==
  LET timeMeta == timeMetaB(elements, i)
  IN  Period(Get(timeMeta, "startTime"),
             Get(timeMeta, "endTime"),
             fieldB(getParamB(elements, i, "Wx")),
             fieldB(getParamB(elements, i, "PoP")),
             fieldB(getParamB(elements, i, "MinT")),
             fieldB(getParamB(elements, i, "T")),
             fieldB(getParamB(elements, i, "CI")),
             fieldB(getParamB(elements, i, "WS")))

\* ---- rev C

\* timeArray[i].parameter[idx]?.parameterName || null: indexing a missing
\* parameter raises a TypeError
getValueC(elements, i, elName, idx) ==
  LET timeArray == Elem(elements, elName)
  IN  IF ~Truthy(timeArray) \/ ~Truthy(Idx(timeArray, i)) THEN Null
      ELSE LET parameter == Get(Idx(timeArray, i), "parameter")
           IN  IF Nullish(parameter) THEN Throw
               ELSE Or(OptGet(Idx(parameter, idx), "parameterName"), Null)

timeMetaC(elements, i) ==
  IF Truthy(Elem(elements, "Wx")) THEN Idx(Elem(elements, "Wx"), i) ELSE Null

PeriodC(elements, i) ==
  LET timeMeta == timeMetaC(elements, i)
  IN  Period(Coalesce(OptGet(timeMeta, "startTime"), Null),
             Coalesce(OptGet(timeMeta, "endTime"), Null),
             getValueC(elements, i, "Wx", 0),
             getValueC(elements, i, "PoP", 0),
             getValueC(elements, i, "MinT", 0),
             getValueC(elements, i, "MaxT", 0),
             getValueC(elements, i, "CI", 0),
             getValueC(elements, i, "WS", 0))

\* ---- the loop

TimeLen(r, elements) ==
  IF r = "C" THEN TimeLenWx(elements) ELSE TimeLenMax(elements)

PeriodOf(r, elements, i) ==
  CASE r = "A" -> PeriodA(elements, i)
    [] r = "B" -> PeriodB(elements, i)
    [] r = "C" -> PeriodC(elements, i)

\* for (let i = 0; i < timeLen; i++) forecasts.push({...})
Forecasts(r, elements, timeLen) ==
  IF timeLen <= 0 THEN <<>>
  ELSE [k \in 1..timeLen |-> PeriodOf(r, elements, k - 1)]

\* the loop's result: the forecasts, or threw when a value read raised
Pushed(forecasts) ==
  IF \E k \in DOMAIN forecasts : Throw \in PeriodFields(forecasts[k])
  THEN [threw |-> TRUE, forecasts |-> <<>>]
  ELSE [threw |-> FALSE, forecasts |-> forecasts]

NormalizeElements(r, elements) ==
  Pushed(Forecasts(r, elements, TimeLen(r, elements)))

\* weatherElement.forEach(...) raises when weatherElement is no list
NormalizeList(r, we) ==
  IF we.t # "list" THEN [threw |-> TRUE, forecasts |-> <<>>]
  ELSE NormalizeElements(r, BuildElements(we))

\* locationData.weatherElement.forEach(...), then the for loop
Normalize(r, locationData) ==
  NormalizeList(r, Get(locationData, "weatherElement"))

----------------------------------------------------------------------------
(* The handler getYilanWeekly *)

\* res.status(status).json({success, error, raw, city, forecasts})
Resp(status, success, error, raw, city, forecasts) ==
  [status |-> status, success |-> success, error |-> error, raw |-> raw,
   city |-> city, forecasts |-> forecasts]

\* error "缺少 CWA_API_KEY"
ConfigError == Resp(500, FALSE, "MissingKey", Undef, Undef, <<>>)

\* error "資料集錯誤", raw: response.data
DatasetError(data) == Resp(404, FALSE, "DatasetError", data, Undef, <<>>)

\* error "查無資料"
NoData(raw) == Resp(404, FALSE, "NoData", raw, Undef, <<>>)

\* res.json({success: true, city, forecasts})
Success(city, forecasts) == Resp(200, TRUE, "", Undef, city, forecasts)

\* what the try block did: the responses it sent, whether it raised, and
\* whether it got as far as the normaliser
Did(sends, threw, ran) == [sends |-> sends, threw |-> threw, normalized |-> ran]

\* the check written as CWA_API_KEY === undefined: an empty key passes it
KeyMissing_OnlyUndefined(key) == key = Undef

\* !CWA_API_KEY
KeyMissing(key) == ~Truthy(key)

\* the success response, unless the normaliser raised
Respond(n, city) ==
  IF n.threw THEN Did(<<>>, TRUE, TRUE)
  ELSE Did(<<Success(city, n.forecasts)>>, FALSE, TRUE)

\* the normaliser and the success response
Finish(r, locationData, city) == Respond(Normalize(r, locationData), city)

\* allLocations.find(loc => loc.locationName === locationName)
Find(allLocations, locationName) ==
  LET hits == {j \in DOMAIN allLocations.v :
                 Get(allLocations.v[j], "locationName") = locationName}
  IN  IF hits = {} THEN Undef
      ELSE allLocations.v[CHOOSE j \in hits : \A k \in hits : j <= k]

\* records.locations[0].location.map(l => l.locationName)
LocationNames(allLocations) ==
  List([j \in DOMAIN allLocations.v |-> Get(allLocations.v[j], "locationName")])

\* rev A after the await: records.locations[0].location, filtered by name
TryA(t, data) ==
  IF Nullish(data) THEN Did(<<>>, TRUE, FALSE)
  ELSE
    LET locationName == Or(t, Str("YilanCity"))
        records == Get(data, "records")
        allLocations == OptGet(OptIdx(OptGet(records, "locations"), 0), "location")
    IN  IF ~Truthy(allLocations) \/ LengthIs0(allLocations)
        THEN Did(<<DatasetError(data)>>, FALSE, FALSE)
        ELSE IF allLocations.t # "list" THEN Did(<<>>, TRUE, FALSE)
        ELSE LET locationData == Find(allLocations, locationName)
             IN  IF ~Truthy(locationData)
                 THEN Did(<<NoData(LocationNames(allLocations))>>, FALSE, FALSE)
                 ELSE Finish("A", locationData, Get(locationData, "locationName"))

\* rev B after the await: records.locations[0].location, first entry
TryB(t, data) ==
  IF Nullish(data) THEN Did(<<>>, TRUE, FALSE)
  ELSE
    LET records == Get(data, "records")
        locationsArray == OptGet(OptIdx(OptGet(records, "locations"), 0), "location")
    IN  IF ~Truthy(locationsArray) \/ LengthIs0(locationsArray)
        THEN Did(<<NoData(data)>>, FALSE, FALSE)
        ELSE LET locationData == Idx(locationsArray, 0)
             IN  Finish("B", locationData, Get(locationData, "locationName"))

\* rev C after the await: records.location[0]; the town is not read
TryC(t, data) ==
  IF Nullish(data) THEN Did(<<>>, TRUE, FALSE)
  ELSE
    LET countyName == Str("YilanCounty")
        records == Get(data, "records")
        locationData == OptIdx(OptGet(records, "location"), 0)
    IN  IF ~Truthy(locationData)
        THEN Did(<<DatasetError(data)>>, FALSE, FALSE)
        ELSE Finish("C", locationData, countyName)

TryBody(r, t, data) ==
  CASE r = "A" -> TryA(t, data)
    [] r = "B" -> TryB(t, data)
    [] r = "C" -> TryC(t, data)

\* the catch block without its if (error.response): always 500
CatchStatus_Always500(error) == 500

\* let status = 500; if (error.response) status = error.response.status
CatchStatus(error) == IF error.kind = "http" THEN error.status ELSE 500

\* the catch block's res.status(status).json({error: "伺服器錯誤"})
CatchSends(error) ==
  <<Resp(CatchStatus(error), FALSE, "ServerError", Undef, Undef, <<>>)>>

TypeError == [kind |-> "TypeError", status |-> 0, data |-> Undef]

\* a catch block that only logs: an exception leaves the request unanswered
Caught_LogOnly(b) == b

\* try { ... } catch (error) { ... } around what the try block did
Caught(b) ==
  IF b.threw THEN Did(b.sends \o CatchSends(TypeError), TRUE, b.normalized)
  ELSE b

\* the handler from the point the awaited call settles
AfterAwait(r, t, outcome) ==
  IF outcome.kind # "ok" THEN Did(CatchSends(outcome), TRUE, FALSE)
  ELSE Caught(TryBody(r, t, outcome.data))

----------------------------------------------------------------------------
(* One request *)

NoResponse == [kind |-> "none", status |-> 0, data |-> Undef]

Init ==
  /\ rev \in Revs
  /\ apiKey \in Keys
  /\ town \in Towns
  /\ pc = "start"
  /\ calls = 0
  /\ response = NoResponse
  /\ sent = <<>>
  /\ normalized = FALSE

\* if (!CWA_API_KEY) return res.status(500).json(...)
RejectNoKey ==
  /\ pc = "start"
  /\ KeyMissing(apiKey)
  /\ sent' = Append(sent, ConfigError)
  /\ pc' = "done"
  /\ UNCHANGED <<rev, apiKey, town, calls, response, normalized>>

\* await axios.get(...): the call is issued and the handler suspends
CallUpstream ==
  /\ pc = "start"
  /\ ~KeyMissing(apiKey)
  /\ calls' = calls + 1
  /\ pc' = "awaiting"
  /\ UNCHANGED <<rev, apiKey, town, response, sent, normalized>>

\* the call settles and the handler runs to its end
Resume ==
  /\ pc = "awaiting"
  /\ \E outcome \in Outcomes :
       \E d \in {AfterAwait(rev, town, outcome)} :
          /\ response' = outcome
          /\ sent' = sent \o d.sends
          /\ normalized' = d.normalized
  /\ pc' = "done"
  /\ UNCHANGED <<rev, apiKey, town, calls>>

Next == RejectNoKey \/ CallUpstream \/ Resume

Spec == Init /\ [][Next]_vars

----------------------------------------------------------------------------
(* What the claims speak of, read off the request and the payload *)

Done == pc = "done"

MissingKey == apiKey \in {Undef, Str("")}

\* the one response of a finished request
Answered == Done /\ Len(sent) = 1

\* the place name the request asks for: the town (default YilanCity) in
\* server.js, the county in part_000
RequestedName ==
  IF rev = "C" THEN Str("YilanCounty") ELSE Or(town, Str("YilanCity"))

\* records.locations[0].location and records.location of a payload
WrappedOf(data) ==
  OptGet(OptIdx(OptGet(OptGet(data, "records"), "locations"), 0), "location")

FlatOf(data) == OptGet(OptGet(data, "records"), "location")

\* the places of a list value, as a sequence (none when it is no list)
PlacesOf(l) == IF l.t = "list" THEN l.v ELSE <<>>

\* the first place of a sequence that bears the name, Undef when none does
Named(places, name) ==
  IF \E j \in DOMAIN places : Get(places[j], "locationName") = name
  THEN places[CHOOSE j \in DOMAIN places :
                /\ Get(places[j], "locationName") = name
                /\ \A k \in 1..(j - 1) : Get(places[k], "locationName") # name]
  ELSE Undef

\* the place list in the container the serving revision reads
RevPlaces ==
  IF rev = "C" THEN PlacesOf(FlatOf(response.data))
  ELSE PlacesOf(WrappedOf(response.data))

\* the place record the serving revision normalises
Located ==
  IF RevPlaces = <<>> THEN Undef
  ELSE IF rev = "A" THEN Named(RevPlaces, RequestedName)
  ELSE RevPlaces[1]

\* the time list of the located record's last series of that name, Undef when
\* the record has none
SeriesOf(place, name) ==
  LET we == OptGet(place, "weatherElement")
      js == IF we.t = "list"
            THEN {j \in DOMAIN we.v : Get(we.v[j], "elementName") = Str(name)}
            ELSE {}
  IN  IF js = {} THEN Undef ELSE Get(we.v[Max(js)], "time")

SeriesNames(place) ==
  LET we == OptGet(place, "weatherElement")
  IN  IF we.t = "list" THEN {Get(we.v[j], "elementName").v : j \in DOMAIN we.v} ELSE {}

\* the entry of a series at index i (from 0), Undef when there is none
EntryAt(series, i) ==
  IF series.t = "list" /\ i + 1 \in DOMAIN series.v THEN series.v[i + 1] ELSE Undef

SeriesLen(series) == IF series.t = "list" THEN Len(series.v) ELSE 0

\* a field of the period agrees with the entry's: the same value, or both
\* null or unset
SameTime(field, entry, key) ==
  \/ field = Get(entry, key)
  \/ Nullish(field) /\ Nullish(Get(entry, key))

Succeeded == Answered /\ sent[1].success

----------------------------------------------------------------------------
(* C5. When the API credential is missing (unset or empty), the request    *)
(* ends in the configuration-error response and no upstream call is ever   *)
(* issued for it: the handler never suspends on the call, no outcome is    *)
(* ever received, and nothing follows the error response.                  *)
C5_NoCallWithoutKey ==
  MissingKey =>
    /\ calls = 0
    /\ pc # "awaiting"
    /\ response = NoResponse
    /\ ~normalized
    /\ Done => sent = <<ConfigError>>
    /\ ~Done => sent = <<>>

C5_Witness == MissingKey /\ Done /\ sent = <<ConfigError>> /\ calls = 0

(* C6. When the upstream call fails, the request ends in a failure         *)
(* response whose status is the upstream response's status when the        *)
(* failure carries one, and 500 otherwise (network error, timeout); the    *)
(* call is issued at most once per request and is not issued again.        *)
C6_FailureStatus ==
  /\ calls <= 1
  /\ response.kind \in {"http", "network"} =>
       /\ Answered
       /\ calls = 1
       /\ ~sent[1].success
       /\ sent[1].error = "ServerError"
       /\ sent[1].status = (IF response.kind = "http" THEN response.status ELSE 500)
       /\ ~normalized

C6_Witness ==
  /\ Done /\ response.kind = "http" /\ response.status = 503
  /\ Len(sent) = 1 /\ sent[1].status = 503 /\ calls = 1

(* C10. Every request, on every path, ends having sent exactly one         *)
(* response: nothing is sent before the handler ends, a step is always     *)
(* possible until it ends, and at its end one response and no more has     *)
(* been sent, so a success never comes after or with an error response.    *)
C10_ExactlyOneResponse ==
  /\ Len(sent) <= 1
  /\ ~Done => (sent = <<>> /\ ENABLED Next)
  /\ Done => Len(sent) = 1

\* a request whose normaliser raised and that was answered once, by the catch
C10_Witness ==
  /\ Done /\ response.kind = "ok" /\ normalized
  /\ Len(sent) = 1 /\ sent[1].error = "ServerError"

(* C9 as amended. For every emitted period index i, startTime and endTime  *)
(* are those of the Wx series entry at i and of no other series: where Wx  *)
(* is absent or has no entry at i they are null, also when another series  *)
(* has an entry at i; where the Wx entry itself bears no time they are     *)
(* null or unset.                                                          *)
C9_TimesFromWxOnly ==
  Succeeded =>
    \A k \in DOMAIN sent[1].forecasts :
      IF Truthy(EntryAt(SeriesOf(Located, "Wx"), k - 1))
      THEN /\ SameTime(sent[1].forecasts[k].startTime,
                       EntryAt(SeriesOf(Located, "Wx"), k - 1), "startTime")
           /\ SameTime(sent[1].forecasts[k].endTime,
                       EntryAt(SeriesOf(Located, "Wx"), k - 1), "endTime")
      ELSE /\ sent[1].forecasts[k].startTime = Null
           /\ sent[1].forecasts[k].endTime = Null

\* a period that has null times although the WS series has a timed entry
\* there, after a first period timed by Wx
C9_Witness ==
  /\ Succeeded
  /\ Len(sent[1].forecasts) = 2
  /\ sent[1].forecasts[1].startTime = Str("T0")
  /\ sent[1].forecasts[2].startTime = Null
  /\ Truthy(EntryAt(SeriesOf(Located, "WS"), 1))
  /\ Get(EntryAt(SeriesOf(Located, "WS"), 1), "startTime") = Str("T1")

(* C9 as claimed. For every emitted period index i, startTime and endTime  *)
(* are taken from the Wx series entry at i when Wx has one, and otherwise  *)
(* from another series that has an entry at i; they are null only when no  *)
(* series has an entry at i.                                               *)
C9_Original ==
  Succeeded =>
    \A k \in DOMAIN sent[1].forecasts :
      IF Truthy(EntryAt(SeriesOf(Located, "Wx"), k - 1))
      THEN /\ SameTime(sent[1].forecasts[k].startTime,
                       EntryAt(SeriesOf(Located, "Wx"), k - 1), "startTime")
           /\ SameTime(sent[1].forecasts[k].endTime,
                       EntryAt(SeriesOf(Located, "Wx"), k - 1), "endTime")
      ELSE IF \E n \in SeriesNames(Located) : Truthy(EntryAt(SeriesOf(Located, n), k - 1))
      THEN \E n \in SeriesNames(Located) :
             /\ Truthy(EntryAt(SeriesOf(Located, n), k - 1))
             /\ SameTime(sent[1].forecasts[k].startTime,
                         EntryAt(SeriesOf(Located, n), k - 1), "startTime")
             /\ SameTime(sent[1].forecasts[k].endTime,
                         EntryAt(SeriesOf(Located, n), k - 1), "endTime")
      ELSE /\ sent[1].forecasts[k].startTime = Null
           /\ sent[1].forecasts[k].endTime = Null

----------------------------------------------------------------------------
\* the lengths of the located record's series
SeriesLens(place) == {SeriesLen(SeriesOf(place, n)) : n \in SeriesNames(place)}

(* C1. For every place record whose attribute series have unequal lengths, *)
(* the normaliser emits exactly as many periods as the longest series      *)
(* present has entries (not as many as Wx has), and for every index at or  *)
(* beyond a shorter series' own length that attribute's field of the       *)
(* emitted period is null.                                                 *)
C1_Claim ==
  (Succeeded /\ Cardinality(SeriesLens(Located)) > 1) =>
    /\ Len(sent[1].forecasts) = Max(SeriesLens(Located))
    /\ \A k \in DOMAIN sent[1].forecasts :
         /\ k > SeriesLen(SeriesOf(Located, "Wx")) => sent[1].forecasts[k].wx = Null
         /\ k > SeriesLen(SeriesOf(Located, "WS")) => sent[1].forecasts[k].ws = Null

\* part_000: Wx has one entry, WS two, and one period is emitted
C1_Witness ==
  /\ rev = "C" /\ Succeeded
  /\ SeriesLen(SeriesOf(Located, "Wx")) = 1
  /\ SeriesLen(SeriesOf(Located, "WS")) = 2
  /\ Truthy(EntryAt(SeriesOf(Located, "WS"), 1))
  /\ Len(sent[1].forecasts) = 1

\* the names of the places of a sequence, as a list value
NamesOf(places) == List([j \in DOMAIN places |-> Get(places[j], "locationName")])

(* C2. Whenever the payload's place list is non-empty and no entry's name  *)
(* equals the requested place name, the request ends in the NotFound       *)
(* response (a normal response, not the catch block's) that carries the    *)
(* names of all places of the payload, and the normaliser is never run.    *)
(* The place list is taken to be the one in the container the serving      *)
(* revision reads.                                                         *)
C2_Claim ==
  (/\ Done /\ response.kind = "ok" /\ RevPlaces # <<>>
   /\ \A j \in DOMAIN RevPlaces : Get(RevPlaces[j], "locationName") # RequestedName)
  => /\ Answered
     /\ sent[1] = NoData(NamesOf(RevPlaces))
     /\ ~normalized

\* server.js:201-315: YilanCity is asked for, the list holds Luodong alone,
\* and Luodong's forecast is the answer
C2_Witness ==
  /\ rev = "B" /\ RequestedName = Str("YilanCity")
  /\ Len(RevPlaces) = 1 /\ Get(RevPlaces[1], "locationName") = Str("Luodong")
  /\ Succeeded /\ normalized
  /\ sent[1].city = Str("Luodong") /\ Len(sent[1].forecasts) = 1

\* the located record has no attribute series: no weatherElement list, or an
\* empty one
NoSeries(place) ==
  \/ Nullish(Get(place, "weatherElement"))
  \/ Get(place, "weatherElement") = List(<<>>)

(* C3. Whenever a place record is matched but has no attribute series at   *)
(* all, the request ends in an EmptyRecord response, which is not the      *)
(* success response, not a not-found response and not the response of a    *)
(* failed request; it never ends in success with an empty forecast list.   *)
C3_Claim ==
  (Done /\ response.kind = "ok" /\ Truthy(Located) /\ NoSeries(Located)) =>
    /\ Answered
    /\ ~sent[1].success
    /\ sent[1].error \notin {"NoData", "DatasetError", "ServerError", "MissingKey"}

\* server.js:23-152: the matched place has an empty weatherElement list and
\* the answer is success with no forecasts
C3_Witness ==
  /\ rev = "A" /\ Truthy(Located)
  /\ Get(Located, "weatherElement") = List(<<>>)
  /\ Succeeded /\ sent[1].forecasts = <<>>

(* C4. For every matched place record with at least one attribute series,  *)
(* a missing or malformed individual attribute entry never aborts the      *)
(* normalisation: the request ends in success, and the field of a series   *)
(* the record does not have is null in every period.                       *)
C4_Claim ==
  (/\ Done /\ response.kind = "ok" /\ Truthy(Located)
   /\ SeriesNames(Located) # {})
  => /\ Succeeded
     /\ \A k \in DOMAIN sent[1].forecasts :
          /\ "Wx" \notin SeriesNames(Located) => sent[1].forecasts[k].wx = Null
          /\ "WS" \notin SeriesNames(Located) => sent[1].forecasts[k].ws = Null

\* part_000: the one Wx entry has its times and an elementValue but no
\* parameter, and the answer is the catch block's 500
C4_Witness ==
  /\ rev = "C" /\ SeriesNames(Located) = {"Wx"}
  /\ EntryAt(SeriesOf(Located, "Wx"), 0) = MkEntry(<<Str("T0"), Str("T1")>>, Undef, WarmValue)
  /\ Answered /\ normalized
  /\ sent[1].error = "ServerError" /\ sent[1].status = 500

\* the target place of the payload, the flat list tried before the wrapped one
Target ==
  IF Truthy(Named(PlacesOf(FlatOf(response.data)), RequestedName))
  THEN Named(PlacesOf(FlatOf(response.data)), RequestedName)
  ELSE Named(PlacesOf(WrappedOf(response.data)), RequestedName)

(* C7. For each recognised container shape, the flat list tried before the *)
(* wrapped one, the locator returns the record of the target place         *)
(* whenever that place is in the payload: a record the normaliser accepts  *)
(* is answered by the success response made of it.                         *)
C7_Claim ==
  (/\ Done /\ response.kind = "ok" /\ Truthy(Target)
   /\ ~Normalize(rev, Target).threw)
  => /\ Succeeded
     /\ sent[1].forecasts = Normalize(rev, Target).forecasts
     /\ rev # "C" => sent[1].city = RequestedName

\* server.js:23-152: the target is the one place of the flat list, there is
\* no wrapped list, and the answer is the 404 for a missing dataset
C7_Witness ==
  /\ rev = "A" /\ RequestedName = Str("YilanCity")
  /\ FlatOf(response.data) = List(<<MkPlace("YilanCity", OneWx)>>)
  /\ WrappedOf(response.data) = Undef
  /\ Answered /\ ~normalized
  /\ sent[1].error = "DatasetError" /\ sent[1].status = 404

\* the first of the values that is not empty, null when none is
FirstNonEmpty(q) ==
  IF \E j \in DOMAIN q : Truthy(q[j])
  THEN q[CHOOSE j \in DOMAIN q : Truthy(q[j]) /\ \A k \in 1..(j - 1) : ~Truthy(q[k])]
  ELSE Null

\* the probes in their order: the parameter's name, its coded value, then the
\* first elementValue's value, measures and description
Probe(entry) ==
  IF ~Truthy(entry) THEN Null
  ELSE FirstNonEmpty(<<OptGet(Get(entry, "parameter"), "parameterName"),
                       OptGet(Get(entry, "parameter"), "parameterValue"),
                       OptGet(OptIdx(Get(entry, "elementValue"), 0), "value"),
                       OptGet(OptIdx(Get(entry, "elementValue"), 0), "measures"),
                       OptGet(OptIdx(Get(entry, "elementValue"), 0), "description")>>)

(* C8. For every attribute and period index i, scalar extraction gives     *)
(* null when the series is absent or has no entry at i; otherwise it gives *)
(* the value of the first probe, in the fixed order, that is not empty,    *)
(* and null (never an empty string) when no probe has a value.             *)
C8_Claim ==
  Succeeded =>
    \A k \in DOMAIN sent[1].forecasts :
      /\ sent[1].forecasts[k].wx = Probe(EntryAt(SeriesOf(Located, "Wx"), k - 1))
      /\ sent[1].forecasts[k].ws = Probe(EntryAt(SeriesOf(Located, "WS"), k - 1))

\* server.js:23-152: the Wx entry has parameter.parameterName "Sunny" and no
\* elementValue, and wx is null
C8_Witness ==
  /\ rev = "A" /\ Succeeded
  /\ EntryAt(SeriesOf(Located, "Wx"), 0) = MkEntry(<<Str("T0"), Str("T1")>>, SunnyParam, Undef)
  /\ Len(sent[1].forecasts) = 1
  /\ sent[1].forecasts[1].wx = Null

============================================================================
